---- MODULE Spec2Model ----
(***************************************************************************)
(* Job orchestration and record pipeline of the HVAC scraper.              *)
(*                                                                         *)
(*   src/src/routes/scraping.py      ScrapingJobManager and the job routes *)
(*   src/src/models/scraping_job.py  ScrapingJob / BusinessData rows       *)
(*   src/data_processor.py           HVACDataProcessor (clean, score,      *)
(*                                   filter)                               *)
(*   src/src/hvac_scraper_core.py    HVACBusinessScraper (scrape, cleanup) *)
(*                                                                         *)
(* Strings are tuples of one-character strings, so that the regular        *)
(* expressions of the cleaning functions are computed character by         *)
(* character.  A timestamp column is modelled by whether it is set.        *)
(***************************************************************************)
EXTENDS Integers, Sequences, FiniteSets, TLC

(***************************************************************************)
(* Bounds of the model.                                                    *)
(***************************************************************************)
MaxJobs == 1
MaxStarts == 2
MaxCancels == 1
MaxLocs == 2
MaxRecords == 3
MaxDigits == 12
MaxTokens == 5
MaxChars == 5

(***************************************************************************)
(* Program constants.                                                      *)
(***************************************************************************)
DefaultMaxReviews == 20
DefaultMinQuality == 40

(***************************************************************************)
(* Characters.                                                             *)
(***************************************************************************)
UpperChars == <<"A","B","C","D","E","F","G","H","I","J","K","L","M",
                "N","O","P","Q","R","S","T","U","V","W","X","Y","Z">>
LowerChars == <<"a","b","c","d","e","f","g","h","i","j","k","l","m",
                "n","o","p","q","r","s","t","u","v","w","x","y","z">>
DigitChars == <<"0","1","2","3","4","5","6","7","8","9">>

Range(f) == {f[i] : i \in DOMAIN f}

IsUpper(c) == c \in Range(UpperChars)
IsLower(c) == c \in Range(LowerChars)
IsDigit(c) == c \in Range(DigitChars)
IsSpace(c) == c = " "
IsWordChar(c) == IsUpper(c) \/ IsLower(c) \/ IsDigit(c) \/ c = "_"

\* re.IGNORECASE compares characters after case folding
ToLower(c) ==
    IF IsUpper(c) THEN LowerChars[CHOOSE i \in 1..26 : UpperChars[i] = c] ELSE c

\* str.strip(): leading and trailing whitespace removed
strip(s) ==
    LET idx == {i \in 1..Len(s) : ~IsSpace(s[i])}
    IN  IF idx = {} THEN <<>>
        ELSE LET lo == CHOOSE i \in idx : \A k \in idx : i <= k
                 hi == CHOOSE i \in idx : \A k \in idx : i >= k
             IN SubSeq(s, lo, hi)

\* case-insensitive prefix / suffix tests
StartsWithCI(s, p) ==
    /\ Len(s) >= Len(p)
    /\ \A i \in 1..Len(p) : ToLower(s[i]) = ToLower(p[i])

EndsWithCI(s, p) ==
    /\ Len(s) >= Len(p)
    /\ \A i \in 1..Len(p) : ToLower(s[Len(s) - Len(p) + i]) = ToLower(p[i])

(***************************************************************************)
(* Normalizer: HVACDataProcessor field cleaning (src/data_processor.py).   *)
(***************************************************************************)
\* number of leading positions of s that lie in the set of positions hits
LeadingCount(s, hits) ==
    LET stop == (1..Len(s)) \ hits
    IN  IF stop = {} THEN Len(s)
        ELSE (CHOOSE i \in stop : \A k \in stop : i <= k) - 1

\* length of the match of \d* , \s* and \S* at the start of s
LeadingDigits(s) == LeadingCount(s, {i \in 1..Len(s) : IsDigit(s[i])})

LeadingSpaces(s) == LeadingCount(s, {i \in 1..Len(s) : IsSpace(s[i])})

LeadingNonSpaces(s) == LeadingCount(s, {i \in 1..Len(s) : ~IsSpace(s[i])})

DropFirst(s, n) == SubSeq(s, n + 1, Len(s))

\* re.match(r'^".*"$', name)
MatchQuoted(n) == Len(n) >= 2 /\ n[1] = "\"" /\ n[Len(n)] = "\""

\* re.match(r'^\d+\.\s*', name)
MatchNumbered(n) ==
    LET d == LeadingDigits(n)
    IN  d >= 1 /\ Len(n) > d /\ n[d + 1] = "."

\* re.match(r'Google Maps.*', name, re.IGNORECASE)
MatchGoogleMaps(n) ==
    StartsWithCI(n, <<"G","o","o","g","l","e"," ","M","a","p","s">>)

\* re.sub(r'\bSUF\.?$', 'SUF', name, flags=re.IGNORECASE)
SubEntitySuffix(n, suf) ==
    LET m == Len(suf)
        Boundary(start) == start = 1 \/ ~IsWordChar(n[start - 1])
    IN  IF EndsWithCI(n, suf \o <<".">>) /\ Boundary(Len(n) - m)
        THEN SubSeq(n, 1, Len(n) - m - 1) \o suf
        ELSE IF EndsWithCI(n, suf) /\ Boundary(Len(n) - m + 1)
        THEN SubSeq(n, 1, Len(n) - m) \o suf
        ELSE n

_clean_business_name(name) ==
    IF name = <<>> THEN <<>>
    ELSE LET n == strip(name)
         IN  IF MatchQuoted(n) \/ MatchNumbered(n) \/ MatchGoogleMaps(n)
             THEN <<>>
             ELSE strip(SubEntitySuffix(
                          SubEntitySuffix(
                            SubEntitySuffix(n, <<"L","L","C">>),
                            <<"I","n","c">>),
                          <<"C","o","r","p">>))

FormatPhone(d) ==
    <<"(">> \o SubSeq(d, 1, 3) \o <<")", " ">> \o SubSeq(d, 4, 6)
            \o <<"-">> \o SubSeq(d, 7, 10)

\* eleven digits are taken whatever the first one is
_validate_phone_number_any11(phone) ==
    IF phone = <<>> THEN <<>>
    ELSE LET digits == SelectSeq(strip(phone), IsDigit)
         IN  IF Len(digits) = 10 THEN FormatPhone(digits)
             ELSE IF Len(digits) = 11
             THEN FormatPhone(DropFirst(digits, 1))
             ELSE <<>>

_validate_phone_number(phone) ==
    IF phone = <<>> THEN <<>>
    ELSE LET digits == SelectSeq(strip(phone), IsDigit)
         IN  IF Len(digits) = 10 THEN FormatPhone(digits)
             ELSE IF Len(digits) = 11 /\ digits[1] = "1"
             THEN FormatPhone(DropFirst(digits, 1))
             ELSE <<>>

AddressSentinels ==
    { <<"U","n","k","n","o","w","n">>, <<"N","/","A">>,
      <<"N","o","t"," ","f","o","u","n","d">>,
      <<"N","o"," ","r","e","v","i","e","w","s">> }

\* re.sub(r'\s+', ' ', address)
RECURSIVE CollapseSpaces(_)
CollapseSpaces(s) ==
    IF s = <<>> THEN <<>>
    ELSE IF IsSpace(s[1])
    THEN <<" ">> \o CollapseSpaces(DropFirst(s, LeadingSpaces(s)))
    ELSE <<s[1]>> \o CollapseSpaces(Tail(s))

\* re.sub(r',\s*,', ',', address): non-overlapping matches, left to right
RECURSIVE CollapseCommas(_)
CollapseCommas(s) ==
    IF s = <<>> THEN <<>>
    ELSE IF s[1] = ","
    THEN LET rest == Tail(s)
             k == LeadingSpaces(rest)
         IN  IF Len(rest) > k /\ rest[k + 1] = ","
             THEN <<",">> \o CollapseCommas(DropFirst(rest, k + 1))
             ELSE <<",">> \o CollapseCommas(rest)
    ELSE <<s[1]>> \o CollapseCommas(Tail(s))

_clean_address(address) ==
    IF address = <<>> THEN <<>>
    ELSE LET a == strip(address)
         IN  IF a \in AddressSentinels THEN <<>>
             ELSE strip(CollapseCommas(CollapseSpaces(a)))

OwnerSentinels ==
    { <<"U","n","k","n","o","w","n">>, <<"N","/","A">>,
      <<"N","o","t"," ","f","o","u","n","d">>,
      <<"N","o","t"," ","e","x","p","l","i","c","i","t","l","y"," ",
        "s","t","a","t","e","d">> }

\* re.sub(r'\s*\([^)]*\)', '', owner)
RECURSIVE RemoveParens(_)
RemoveParens(s) ==
    IF s = <<>> THEN <<>>
    ELSE LET k == LeadingSpaces(s)
             closes == {c \in (k + 2)..Len(s) : s[c] = ")"}
         IN  IF Len(s) > k /\ s[k + 1] = "(" /\ closes # {}
             THEN RemoveParens(DropFirst(s,
                      CHOOSE c \in closes : \A e \in closes : c <= e))
             ELSE <<s[1]>> \o RemoveParens(Tail(s))

Titles == << <<"M","r">>, <<"M","r","s">>, <<"M","s">>, <<"D","r">> >>

\* length matched by ^(Mr\.?|Mrs\.?|Ms\.?|Dr\.?)\s+ with alternative t, else 0
TitleMatch(s, t) ==
    IF ~StartsWithCI(s, t) THEN 0
    ELSE LET p == IF Len(s) > Len(t) /\ s[Len(t) + 1] = "."
                  THEN Len(t) + 1 ELSE Len(t)
             sp == LeadingSpaces(DropFirst(s, p))
         IN  IF sp >= 1 THEN p + sp ELSE 0

\* re.sub(r'^(Mr\.?|Mrs\.?|Ms\.?|Dr\.?)\s+', '', owner, flags=re.IGNORECASE)
StripTitle(s) ==
    LET hits == {i \in 1..Len(Titles) : TitleMatch(s, Titles[i]) > 0}
    IN  IF hits = {} THEN s
        ELSE DropFirst(s, TitleMatch(s,
                 Titles[CHOOSE i \in hits : \A k \in hits : i <= k]))

\* str.split(): the maximal runs of non-whitespace characters
RECURSIVE split(_)
split(s) ==
    IF s = <<>> THEN <<>>
    ELSE IF IsSpace(s[1]) THEN split(DropFirst(s, LeadingSpaces(s)))
    ELSE LET n == LeadingNonSpaces(s)
         IN  <<SubSeq(s, 1, n)>> \o split(DropFirst(s, n))

\* re.match(r'^[A-Z][a-z]+$', word)
IsNameWord(w) ==
    Len(w) >= 2 /\ IsUpper(w[1]) /\ \A i \in 2..Len(w) : IsLower(w[i])

_clean_owner_name(owner) ==
    IF owner = <<>> THEN <<>>
    ELSE LET o == strip(owner)
         IN  IF o \in OwnerSentinels THEN <<>>
             ELSE LET cleaned == StripTitle(RemoveParens(o))
                      words == split(cleaned)
                  IN  IF Len(words) < 2 \/ Len(words) > 4 THEN <<>>
                      ELSE IF \E i \in 1..Len(words) : ~IsNameWord(words[i])
                      THEN <<>>
                      ELSE strip(cleaned)

(***************************************************************************)
(* Records.  A BusinessInfo carries name, address, phone, website,         *)
(* owner_name and additional_contact as strings.  A raw review_count or    *)
(* star_rating is <<n>> when numeric and NaN otherwise; star_rating counts *)
(* tenths of a star (45 is 4.5).  hours, category, scraped_at and          *)
(* google_maps_url are copied through unread and are left out.             *)
(***************************************************************************)
NaN == <<>>

\* pd.to_numeric(col, errors='coerce').fillna(0)
ToNumeric(v) == IF v = NaN THEN 0 ELSE v[1]

\* processor.processed_data: None until a non-empty frame was cleaned
None == [is_none |-> TRUE, rows |-> <<>>]
Frame(rows) == [is_none |-> FALSE, rows |-> rows]

WebsitePlaceholders ==
    { <<>>, <<"N","o","t"," ","f","o","u","n","d">>, <<"N","/","A">> }

HasWebsite(row) == row.website # <<>> /\ row.website \notin WebsitePlaceholders

Max(a, b) == IF a >= b THEN a ELSE b

\* a priority score that is not clamped at 0
_calculate_priority_score_unclamped(row) ==
    row.review_count * 10
        - (IF row.phone # <<>> THEN 50 ELSE 0)
        - (IF row.owner_name # <<>> THEN 30 ELSE 0)
        - (IF HasWebsite(row) THEN 10 ELSE 0)
        - (IF row.star_rating > 0 THEN (row.star_rating * 2) \div 10 ELSE 0)

_calculate_priority_score(row) ==
    Max(0, row.review_count * 10
           - (IF row.phone # <<>> THEN 50 ELSE 0)
           - (IF row.owner_name # <<>> THEN 30 ELSE 0)
           - (IF HasWebsite(row) THEN 10 ELSE 0)
           - (IF row.star_rating > 0 THEN (row.star_rating * 2) \div 10 ELSE 0))

\* A Python float that lies within a few units in the last place of a whole
\* number: the whole number, and how many such units it lies above it.
Float(whole, ulps) == [whole |-> whole, ulps |-> ulps]

\* a >= b on such floats
FloatGE(a, b) == a.whole > b.whole \/ (a.whole = b.whole /\ a.ulps >= b.ulps)

\* (score / max_score) * 100 in binary64 arithmetic, for max_score = 100 and
\* the sums of weights 0, 5, ..., 100: the quotient is rounded to 53 bits and
\* so is the product, which comes back to score for every sum but 55, where
\* 0.55 * 100 rounds up to 55.00000000000001.
Percentage(score, max_score) ==
    Float((score * 100) \div max_score, IF score * 100 = 55 * max_score THEN 1 ELSE 0)

_calculate_data_quality_score(row) ==
    LET score == (IF row.name # <<>> THEN 20 ELSE 0)
               + (IF row.phone # <<>> THEN 25 ELSE 0)
               + (IF row.address # <<>> THEN 15 ELSE 0)
               + (IF row.owner_name # <<>> THEN 20 ELSE 0)
               + (IF HasWebsite(row) THEN 10 ELSE 0)
               + (IF row.review_count > 0 THEN 5 ELSE 0)
               + (IF row.additional_contact # <<>> THEN 5 ELSE 0)
        max_score == 20 + 25 + 15 + 20 + 10 + 5 + 5
    IN  IF max_score > 0 THEN Percentage(score, max_score) ELSE Float(0, 0)

\* the column-wise cleaning of clean_and_validate_data
CleanRow(b) ==
    [b EXCEPT !.name = _clean_business_name(b.name),
              !.phone = _validate_phone_number(b.phone),
              !.address = _clean_address(b.address),
              !.review_count = ToNumeric(b.review_count),
              !.star_rating = ToNumeric(b.star_rating),
              !.owner_name = _clean_owner_name(b.owner_name)]

\* duplicates told by the name alone
drop_duplicates_byname(rows) ==
    LET keep == {i \in 1..Len(rows) :
                    \A k \in 1..(i - 1) : rows[k].name # rows[i].name}
        F[i \in 0..Len(rows)] ==
            IF i = 0 THEN <<>>
            ELSE IF i \in keep THEN Append(F[i - 1], rows[i]) ELSE F[i - 1]
    IN  F[Len(rows)]

\* df.drop_duplicates(subset=['name', 'phone'], keep='first')
drop_duplicates(rows) ==
    LET keep == {i \in 1..Len(rows) :
                    \A k \in 1..(i - 1) :
                        ~(rows[k].name = rows[i].name /\ rows[k].phone = rows[i].phone)}
        F[i \in 0..Len(rows)] ==
            IF i = 0 THEN <<>>
            ELSE IF i \in keep THEN Append(F[i - 1], rows[i]) ELSE F[i - 1]
    IN  F[Len(rows)]

ScoreRow(row) ==
    [name |-> row.name, address |-> row.address, phone |-> row.phone,
     website |-> row.website, star_rating |-> row.star_rating,
     review_count |-> row.review_count, owner_name |-> row.owner_name,
     additional_contact |-> row.additional_contact, location |-> row.location,
     priority_score |-> _calculate_priority_score(row),
     data_quality_score |-> _calculate_data_quality_score(row)]

\* drop_duplicates, then df[df['name'].str.len() > 0]
dedupe(rows) == SelectSeq(drop_duplicates(rows), LAMBDA r : Len(r.name) > 0)

\* the value of processor.processed_data after clean_and_validate_data():
\* an empty frame returns early and leaves processed_data at None
clean_and_validate_data(businesses) ==
    IF businesses = <<>> THEN None
    ELSE LET cleaned == [i \in 1..Len(businesses) |-> CleanRow(businesses[i])]
             named == dedupe(cleaned)
         IN  Frame([i \in 1..Len(named) |-> ScoreRow(named[i])])

\* code point order of the characters in use
AsciiOrder ==
    <<" ", "\"", "(", ")", ",", "-", ".", "/">> \o DigitChars
        \o UpperChars \o <<"_">> \o LowerChars

Ord(c) == CHOOSE i \in 1..Len(AsciiOrder) : AsciiOrder[i] = c

\* Python str comparison a < b
StrLess(a, b) ==
    \E i \in 1..(Len(b)) :
        /\ \A k \in 1..(i - 1) : k <= Len(a) /\ a[k] = b[k]
        /\ \/ i = Len(a) + 1
           \/ i <= Len(a) /\ Ord(a[i]) < Ord(b[i])

\* row a sorts strictly before row b under ['priority_score', 'review_count', 'name']
RowLess(a, b) ==
    \/ a.priority_score < b.priority_score
    \/ /\ a.priority_score = b.priority_score
       /\ \/ a.review_count < b.review_count
          \/ a.review_count = b.review_count /\ StrLess(a.name, b.name)

\* no sorting at all
sort_values_unsorted(rows) == rows

\* DataFrame.sort_values on several columns: a stable sort
sort_values(rows) ==
    LET Insert(sorted, r) ==
            LET n == Cardinality({i \in 1..Len(sorted) : ~RowLess(r, sorted[i])})
            IN  SubSeq(sorted, 1, n) \o <<r>> \o SubSeq(sorted, n + 1, Len(sorted))
        F[i \in 0..Len(rows)] ==
            IF i = 0 THEN <<>> ELSE Insert(F[i - 1], rows[i])
    IN  F[Len(rows)]

\* a filter that lets records without a phone through
filter_by_criteria_nophone(processed, max_reviews, min_quality_score) ==
    sort_values(SelectSeq(processed.rows,
        LAMBDA r : /\ r.review_count <= max_reviews
                   /\ FloatGE(r.data_quality_score, Float(min_quality_score, 0))))

\* filter_by_criteria when processed_data is not None (None raises ValueError)
filter_by_criteria(processed, max_reviews, min_quality_score) ==
    sort_values(SelectSeq(processed.rows,
        LAMBDA r : /\ r.review_count <= max_reviews
                   /\ FloatGE(r.data_quality_score, Float(min_quality_score, 0))
                   /\ r.phone # <<>>))

(***************************************************************************)
(* The raw records the Extractor hands back in this model.  The state      *)
(* names a scraped business by its key and location; Business gives the    *)
(* BusinessInfo itself.                                                    *)
(***************************************************************************)
\* cleaning changes the name ("Ace llc." becomes "Ace LLC")
RecA == [name |-> <<"A","c","e"," ","l","l","c",".">>,
         address |-> <<"1"," ","E","l","m">>,
         phone |-> <<"2","0","8","-","5","5","5","-","0","1","0","1">>,
         website |-> <<>>, star_rating |-> <<45>>, review_count |-> <<3>>,
         owner_name |-> <<"M","r","."," ","A","l"," ","F","o","x">>,
         additional_contact |-> <<>>]
\* two businesses of one name with different phones
RecB == [name |-> <<"Z","e","d">>,
         address |-> <<"N","/","A">>,
         phone |-> <<"1","2","0","8","5","5","5","0","1","0","2">>,
         website |-> <<"N","/","A">>, star_rating |-> NaN, review_count |-> <<0>>,
         owner_name |-> <<"A","l"," ","F","o","x">>,
         additional_contact |-> <<>>]
RecC == [name |-> <<"Z","e","d">>,
         address |-> <<"2"," ","O","a","k">>,
         phone |-> <<"(","2","0","8",")"," ","5","5","5","-","0","1","0","3">>,
         website |-> <<"z",".","i","o">>, star_rating |-> <<0>>,
         review_count |-> <<1>>, owner_name |-> <<>>,
         additional_contact |-> <<"x">>]
\* no usable phone
RecD == [name |-> <<"O","h","m"," ","I","n","c">>,
         address |-> <<>>, phone |-> <<"5","5","5","-","1","2","3","4">>,
         website |-> <<>>, star_rating |-> <<0>>,
         review_count |-> NaN, owner_name |-> <<>>, additional_contact |-> <<>>]

\* RecB again under another spelling: the same name and phone once cleaned
RecE == [name |-> <<" ","Z","e","d"," ">>,
         address |-> <<"9"," ","A","s","h">>,
         phone |-> <<"2","0","8",".","5","5","5",".","0","1","0","2">>,
         website |-> <<>>, star_rating |-> <<30>>, review_count |-> <<2>>,
         owner_name |-> <<>>, additional_contact |-> <<>>]
\* a list artifact: its name is cleaned to the empty string
RecF == [name |-> <<"1","."," ","Z","e","d">>,
         address |-> <<"3"," ","F","i","r">>,
         phone |-> <<"2","0","8","5","5","5","0","1","0","4">>,
         website |-> <<>>, star_rating |-> <<0>>, review_count |-> <<0>>,
         owner_name |-> <<"A","l"," ","F","o","x">>,
         additional_contact |-> <<>>]
\* many reviews: a positive priority score, and more than the default limit
RecG == [name |-> <<"A","b","e">>,
         address |-> <<>>,
         phone |-> <<"2","0","8","5","5","5","0","1","0","5">>,
         website |-> <<>>, star_rating |-> <<0>>, review_count |-> <<8>>,
         owner_name |-> <<>>, additional_contact |-> <<>>]

\* as many reviews and as low a priority score as RecA, another name
RecH == [name |-> <<"B","o">>,
         address |-> <<>>,
         phone |-> <<"2","0","8","5","5","5","0","1","0","6">>,
         website |-> <<>>, star_rating |-> <<0>>, review_count |-> <<3>>,
         owner_name |-> <<>>, additional_contact |-> <<>>]

RawRecords == [A |-> RecA, B |-> RecB, C |-> RecC, D |-> RecD,
               E |-> RecE, F |-> RecF, G |-> RecG, H |-> RecH]

LocationNames == <<"Boise", "Nampa">>

\* what scrape_location finds at each location, as keys of RawRecords
Listing(location) ==
    IF location = "Boise" THEN <<"A", "B", "C", "D">> ELSE <<>>

\* the BusinessInfo objects scrape_location(location, ...) builds for a batch
WithLocation(batch, location) ==
    [i \in 1..Len(batch) |-> [key |-> batch[i], location |-> location]]

Business(b) ==
    [name |-> RawRecords[b.key].name, address |-> RawRecords[b.key].address,
     phone |-> RawRecords[b.key].phone, website |-> RawRecords[b.key].website,
     star_rating |-> RawRecords[b.key].star_rating,
     review_count |-> RawRecords[b.key].review_count,
     owner_name |-> RawRecords[b.key].owner_name,
     additional_contact |-> RawRecords[b.key].additional_contact,
     location |-> b.location]

(***************************************************************************)
(* State.                                                                  *)
(***************************************************************************)
VARIABLES
    jobs,           \* scraping_jobs table: row id |-> ScrapingJob
    business_data,  \* business_data table, in insertion order
    active_jobs,    \* ScrapingJobManager.active_jobs: job id |-> thread
    starts,         \* POST /jobs/<id>/start requests
    cancels,        \* POST /jobs/<id>/cancel requests
    execs,          \* _execute_job threads, named by the request that made them
    exports,        \* the report exporter's invocations
    create_resp,    \* status code of the last POST /jobs
    processor,      \* an HVACDataProcessor used on its own
    call            \* one call of a field cleaner of the processor

vars == <<jobs, business_data, active_jobs, starts, cancels, execs, exports,
          create_resp, processor, call>>

StartReqs == 1..MaxStarts
CancelReqs == 1..MaxCancels

PENDING == "pending"
RUNNING == "running"
COMPLETED == "completed"
FAILED == "failed"
CANCELLED == "cancelled"
JobStatus == {PENDING, RUNNING, COMPLETED, FAILED, CANCELLED}

\* a ScrapingJob row with the column defaults of the model class
ScrapingJob(job_name, locations, max_reviews, min_quality_score) ==
    [job_name |-> job_name, locations |-> locations,
     max_reviews |-> max_reviews, min_quality_score |-> min_quality_score,
     status |-> PENDING, started_at |-> FALSE, completed_at |-> FALSE,
     total_businesses_found |-> 0, businesses_meeting_criteria |-> 0,
     reports |-> FALSE, error_message |-> ""]

\* a BusinessData row made from a scraped business: its columns are the
\* fields of Business(row) as scraped, the two scores start at their defaults
BusinessData(job_id, business) ==
    [job_id |-> job_id, key |-> business.key, location |-> business.location,
     priority_score |-> 0, data_quality_score |-> Float(0, 0)]

NoThread ==
    [pc |-> "none", job_id |-> 0, loc |-> 0, all_businesses |-> <<>>,
     session |-> FALSE, raised |-> ""]

IdleRequest == [pc |-> "idle", job_id |-> 0, outcome |-> ""]

\* no field cleaner is called on its own
NoCall == [pc |-> "none", method |-> "", arg |-> <<>>, result |-> <<>>,
           again |-> <<>>]

\* no HVACDataProcessor besides the ones the execution threads make
NoProcessor ==
    [pc |-> "none", businesses |-> <<>>, normalized |-> <<>>,
     deduped |-> <<>>, processed_data |-> None, max_reviews |-> 0,
     min_quality_score |-> 0, filtered |-> <<>>]

Init ==
    /\ jobs = <<>>
    /\ business_data = <<>>
    /\ active_jobs = <<>>
    /\ starts = [s \in StartReqs |-> IdleRequest]
    /\ cancels = [k \in CancelReqs |-> IdleRequest]
    /\ execs = [s \in StartReqs |-> NoThread]
    /\ exports = <<>>
    /\ create_resp = 0
    /\ processor = NoProcessor
    /\ call = NoCall

\* ScrapingJob.query.get(job_id)
JobExists(job_id) == job_id \in DOMAIN jobs

\* dict assignment and del on active_jobs
DictSet(d, k, v) == [x \in DOMAIN d \cup {k} |-> IF x = k THEN v ELSE d[x]]
DictDel(d, k) == [x \in DOMAIN d \ {k} |-> d[x]]

(***************************************************************************)
(* POST /jobs                                                              *)
(***************************************************************************)
Absent == [present |-> FALSE, value |-> <<>>]
Given(v) == [present |-> TRUE, value |-> v]

LocationLists == UNION {[1..n -> Range(LocationNames)] : n \in 0..MaxLocs}

\* the JSON bodies of the model: each required field given or left out
CreateRequests ==
    [job_name : {Absent, Given(<<"J","o","b">>)},
     locations : {Absent} \cup {Given(l) : l \in LocationLists}]

create_job(data) ==
    /\ Len(jobs) < MaxJobs
    /\ IF ~data.job_name.present \/ ~data.locations.present
       THEN /\ create_resp' = 400
            /\ UNCHANGED jobs
       ELSE /\ jobs' = Append(jobs, ScrapingJob(data.job_name.value,
                                               data.locations.value,
                                               DefaultMaxReviews,
                                               DefaultMinQuality))
            /\ create_resp' = 201
    /\ UNCHANGED <<business_data, active_jobs, starts, cancels, execs, exports>>

(***************************************************************************)
(* POST /jobs/<id>/start and ScrapingJobManager.start_job                  *)
(***************************************************************************)
Finish(req, outcome) == [req EXCEPT !.pc = "done", !.outcome = outcome]

\* start_job_route without the status check: any existing job goes on
start_job_route_nocheck(s, job_id) ==
    /\ starts[s].pc = "idle"
    /\ \A r \in 1..(s - 1) : starts[r].pc # "idle"
    /\ starts' = [starts EXCEPT ![s] =
          IF ~JobExists(job_id)
          THEN [Finish(@, "not_found") EXCEPT !.job_id = job_id]
          ELSE [@ EXCEPT !.pc = "check", !.job_id = job_id]]
    /\ UNCHANGED <<jobs, business_data, active_jobs, cancels, execs, exports,
                   create_resp>>

\* the route reads the job and checks its status
start_job_route(s, job_id) ==
    /\ starts[s].pc = "idle"
    /\ \A r \in 1..(s - 1) : starts[r].pc # "idle"
    /\ starts' = [starts EXCEPT ![s] =
          IF ~JobExists(job_id)
          THEN [Finish(@, "not_found") EXCEPT !.job_id = job_id]
          ELSE IF jobs[job_id].status # PENDING
          THEN [Finish(@, "invalid_state") EXCEPT !.job_id = job_id]
          ELSE [@ EXCEPT !.pc = "check", !.job_id = job_id]]
    /\ UNCHANGED <<jobs, business_data, active_jobs, cancels, execs, exports,
                   create_resp>>

\* start_job: if job_id in self.active_jobs: return False
start_job_check(s) ==
    /\ starts[s].pc = "check"
    /\ starts' = [starts EXCEPT ![s] =
          IF @.job_id \in DOMAIN active_jobs
          THEN Finish(@, "already_running")
          ELSE [@ EXCEPT !.pc = "register"]]
    /\ UNCHANGED <<jobs, business_data, active_jobs, cancels, execs, exports,
                   create_resp>>

\* start_job: the thread is made, registered and started; the route answers
start_job_register(s) ==
    /\ starts[s].pc = "register"
    /\ active_jobs' = DictSet(active_jobs, starts[s].job_id, s)
    /\ execs' = [execs EXCEPT ![s] =
          [NoThread EXCEPT !.pc = "start", !.job_id = starts[s].job_id]]
    /\ starts' = [starts EXCEPT ![s] = Finish(@, "success")]
    /\ UNCHANGED <<jobs, business_data, cancels, exports, create_resp>>

(***************************************************************************)
(* POST /jobs/<id>/cancel                                                  *)
(***************************************************************************)
\* the route reads the job and checks its status
cancel_job_route(k, job_id) ==
    /\ cancels[k].pc = "idle"
    /\ \A r \in 1..(k - 1) : cancels[r].pc # "idle"
    /\ cancels' = [cancels EXCEPT ![k] =
          IF ~JobExists(job_id)
          THEN [Finish(@, "not_found") EXCEPT !.job_id = job_id]
          ELSE IF jobs[job_id].status \notin {PENDING, RUNNING}
          THEN [Finish(@, "invalid_state") EXCEPT !.job_id = job_id]
          ELSE [@ EXCEPT !.pc = "commit", !.job_id = job_id]]
    /\ UNCHANGED <<jobs, business_data, active_jobs, starts, execs, exports,
                   create_resp>>

\* cancel_job_commit that forgets completed_at
cancel_job_commit_notime(k) ==
    /\ cancels[k].pc = "commit"
    /\ jobs' = [jobs EXCEPT ![cancels[k].job_id] =
          [@ EXCEPT !.status = CANCELLED]]
    /\ cancels' = [cancels EXCEPT ![k].pc = "check"]
    /\ UNCHANGED <<business_data, active_jobs, starts, execs, exports,
                   create_resp>>

\* job.status = CANCELLED; job.completed_at = utcnow(); commit
cancel_job_commit(k) ==
    /\ cancels[k].pc = "commit"
    /\ jobs' = [jobs EXCEPT ![cancels[k].job_id] =
          [@ EXCEPT !.status = CANCELLED, !.completed_at = TRUE]]
    /\ cancels' = [cancels EXCEPT ![k].pc = "check"]
    /\ UNCHANGED <<business_data, active_jobs, starts, execs, exports,
                   create_resp>>

\* if job_id in job_manager.active_jobs
cancel_job_check(k) ==
    /\ cancels[k].pc = "check"
    /\ cancels' = [cancels EXCEPT ![k] =
          IF @.job_id \in DOMAIN active_jobs
          THEN [@ EXCEPT !.pc = "del"]
          ELSE Finish(@, "success")]
    /\ UNCHANGED <<jobs, business_data, active_jobs, starts, execs, exports,
                   create_resp>>

\* del job_manager.active_jobs[job_id]; a KeyError is answered with a 500
cancel_job_del(k) ==
    /\ cancels[k].pc = "del"
    /\ IF cancels[k].job_id \in DOMAIN active_jobs
       THEN /\ active_jobs' = DictDel(active_jobs, cancels[k].job_id)
            /\ cancels' = [cancels EXCEPT ![k] = Finish(@, "success")]
       ELSE /\ UNCHANGED active_jobs
            /\ cancels' = [cancels EXCEPT ![k] = Finish(@, "internal_error")]
    /\ UNCHANGED <<jobs, business_data, starts, execs, exports, create_resp>>

(***************************************************************************)
(* ScrapingJobManager._execute_job, one thread per accepted start.         *)
(* pc names the statement the thread is at: "scraping" is inside the       *)
(* scrape_location call for location loc.  Steps that touch nothing but    *)
(* the thread's own variables (cleaning and filtering, scraper.cleanup)    *)
(* are taken together with the step before them.                           *)
(***************************************************************************)
\* HVACBusinessScraper.cleanup outside an event loop: with a session open,
\* asyncio.create_task raises RuntimeError, which replaces what was raised
cleanup(thread) ==
    IF thread.session THEN "no running event loop" ELSE thread.raised

\* the inner finally: scraper.cleanup(), then the handler if anything is raised
InnerFinally(thread) ==
    [thread EXCEPT !.raised = cleanup(thread),
                   !.pc = IF cleanup(thread) # "" THEN "except" ELSE "finally"]

Raise(thread, err) == InnerFinally([thread EXCEPT !.raised = err])

\* every value all_businesses can take, and processed_data for each
RECURSIVE Accumulated(_)
Accumulated(locations) ==
    IF locations = <<>> THEN <<>>
    ELSE Accumulated(SubSeq(locations, 1, Len(locations) - 1))
         \o WithLocation(Listing(locations[Len(locations)]),
                         locations[Len(locations)])

AllBusinessesValues == {Accumulated(l) : l \in LocationLists}

\* (f @@ <<>> is f, held as an explicit table)
ProcessedTable ==
    [all \in AllBusinessesValues |-> clean_and_validate_data([i \in 1..Len(all) |-> Business(all[i])])]
        @@ <<>>

\* the (max_reviews, min_quality_score) pairs a job can carry, and
\* filtered_data for each frame under each of them
CriteriaValues == {<<DefaultMaxReviews, DefaultMinQuality>>}

FilteredTable ==
    [all \in AllBusinessesValues, c \in CriteriaValues |->
        IF ProcessedTable[all].is_none THEN <<>>
        ELSE filter_by_criteria(ProcessedTable[all], c[1], c[2])] @@ <<>>

\* processor.processed_data and filtered_data of a thread
ProcessedOf(thread) == ProcessedTable[thread.all_businesses]
FilteredOf(thread) ==
    FilteredTable[thread.all_businesses,
                  <<jobs[thread.job_id].max_reviews,
                    jobs[thread.job_id].min_quality_score>>]

\* job = query.get(job_id); status = RUNNING; started_at; commit; then the
\* first scrape_location call is entered
_execute_job_start(t) ==
    /\ execs[t].pc = "start"
    /\ \E ok \in BOOLEAN :
         IF ok
         THEN /\ jobs' = [jobs EXCEPT ![execs[t].job_id] =
                    [@ EXCEPT !.status = RUNNING, !.started_at = TRUE]]
              /\ execs' = [execs EXCEPT ![t] =
                    [@ EXCEPT !.loc = 1,
                              !.pc = IF jobs[execs[t].job_id].locations = <<>>
                                     THEN "store" ELSE "scraping"]]
         ELSE /\ UNCHANGED jobs
              /\ execs' = [execs EXCEPT ![t] =
                    [@ EXCEPT !.raised = "store error", !.pc = "except"]]
    /\ UNCHANGED <<business_data, active_jobs, starts, cancels, exports,
                   create_resp>>

\* scrape_location returns a batch or raises; enriching a business opens the
\* scraper's aiohttp session; the call for the next location is entered
_execute_job_scraped(t) ==
    /\ execs[t].pc = "scraping"
    /\ \/ LET job == jobs[execs[t].job_id]
               batch == Listing(job.locations[execs[t].loc])
               businesses == WithLocation(batch, job.locations[execs[t].loc])
           IN  execs' = [execs EXCEPT ![t] =
                   [@ EXCEPT !.all_businesses = @ \o businesses,
                             !.session = @ \/ batch # <<>>,
                             !.loc = @ + 1,
                             !.pc = IF execs[t].loc + 1 > Len(job.locations)
                                    THEN "store" ELSE "scraping"]]
       \/ execs' = [execs EXCEPT ![t] = Raise(@, "extractor error")]
    /\ UNCHANGED <<jobs, business_data, active_jobs, starts, cancels, exports,
                   create_resp>>

\* db.session.add(BusinessData(...)) for every business; commit; then
\* load_businesses, clean_and_validate_data, filter_by_criteria
_execute_job_store(t) ==
    /\ execs[t].pc = "store"
    /\ \E ok \in BOOLEAN :
         IF ok
         THEN /\ business_data' = business_data \o
                    [i \in 1..Len(execs[t].all_businesses) |->
                        BusinessData(execs[t].job_id, execs[t].all_businesses[i])]
              /\ execs' = [execs EXCEPT ![t] =
                    IF ProcessedOf(@).is_none
                    THEN Raise(@, "No processed data available")
                    ELSE [@ EXCEPT !.pc = "export"]]
         ELSE /\ UNCHANGED business_data
              /\ execs' = [execs EXCEPT ![t] = Raise(@, "store error")]
    /\ UNCHANGED <<jobs, active_jobs, starts, cancels, exports, create_resp>>

\* an export step that hands the exporter every processed row, unfiltered
_execute_job_export_unfiltered(t) ==
    /\ execs[t].pc = "export"
    /\ \E ok \in BOOLEAN :
         IF ok
         THEN /\ exports' = Append(exports, [job_id |-> execs[t].job_id,
                                             rows |-> ProcessedOf(execs[t]).rows])
              /\ execs' = [execs EXCEPT ![t].pc = "complete"]
         ELSE /\ UNCHANGED exports
              /\ execs' = [execs EXCEPT ![t] = Raise(@, "exporter error")]
    /\ UNCHANGED <<jobs, business_data, active_jobs, starts, cancels,
                   create_resp>>

\* generate_excel_report; export_csv; export_json
_execute_job_export(t) ==
    /\ execs[t].pc = "export"
    /\ \E ok \in BOOLEAN :
         IF ok
         THEN /\ exports' = Append(exports, [job_id |-> execs[t].job_id,
                                             rows |-> FilteredOf(execs[t])])
              /\ execs' = [execs EXCEPT ![t].pc = "complete"]
         ELSE /\ UNCHANGED exports
              /\ execs' = [execs EXCEPT ![t] = Raise(@, "exporter error")]
    /\ UNCHANGED <<jobs, business_data, active_jobs, starts, cancels,
                   create_resp>>

\* business_record = BusinessData.query.filter_by(job_id=job.id,
\* name=row['name']).first(); if found, it gets the row's two scores
WriteRowScores(table, job_id, row) ==
    LET hits == {n \in 1..Len(table) :
                    /\ table[n].job_id = job_id
                    /\ Business(table[n]).name = row.name}
    IN  IF hits = {} THEN table
        ELSE [table EXCEPT ![CHOOSE n \in hits : \A m \in hits : n <= m] =
                [@ EXCEPT !.priority_score = row.priority_score,
                          !.data_quality_score = row.data_quality_score]]

\* for _, row in filtered_data.iterrows(): ...
RECURSIVE WriteScores(_, _, _)
WriteScores(table, job_id, filtered) ==
    IF filtered = <<>> THEN table
    ELSE WriteScores(WriteRowScores(table, job_id, Head(filtered)),
                     job_id, Tail(filtered))

\* status = COMPLETED, counts, report paths, score write-back; commit
_execute_job_complete(t) ==
    /\ execs[t].pc = "complete"
    /\ \E ok \in BOOLEAN :
         IF ok
         THEN /\ jobs' = [jobs EXCEPT ![execs[t].job_id] =
                    [@ EXCEPT !.status = COMPLETED,
                              !.completed_at = TRUE,
                              !.total_businesses_found = Len(execs[t].all_businesses),
                              !.businesses_meeting_criteria = Len(FilteredOf(execs[t])),
                              !.reports = TRUE]]
              /\ business_data' = WriteScores(business_data, execs[t].job_id,
                                              FilteredOf(execs[t]))
              /\ execs' = [execs EXCEPT ![t] = InnerFinally(@)]
         ELSE /\ UNCHANGED <<jobs, business_data>>
              /\ execs' = [execs EXCEPT ![t] = Raise(@, "store error")]
    /\ UNCHANGED <<active_jobs, starts, cancels, exports, create_resp>>

\* what a Store call of the except handler raises
HandlerError == "store error in handler"

\* a handler that marks the job failed without recording the error
_execute_job_except_nomsg(t) ==
    /\ execs[t].pc = "except"
    /\ jobs' = [jobs EXCEPT ![execs[t].job_id] =
          [@ EXCEPT !.status = FAILED, !.completed_at = TRUE]]
    /\ execs' = [execs EXCEPT ![t].pc = "finally"]
    /\ UNCHANGED <<business_data, active_jobs, starts, cancels, exports,
                   create_resp>>

\* except Exception: status = FAILED, completed_at, error_message; commit.
\* The handler's own query or commit can fail as any Store call can: what
\* it raises leaves the handler, nothing is written and the outer finally
\* runs
_execute_job_except(t) ==
    /\ execs[t].pc = "except"
    /\ \E ok \in BOOLEAN :
         IF ok
         THEN /\ jobs' = [jobs EXCEPT ![execs[t].job_id] =
                    [@ EXCEPT !.status = FAILED, !.completed_at = TRUE,
                              !.error_message = execs[t].raised]]
              /\ execs' = [execs EXCEPT ![t].pc = "finally"]
         ELSE /\ UNCHANGED jobs
              /\ execs' = [execs EXCEPT ![t] =
                    [@ EXCEPT !.raised = HandlerError, !.pc = "finally"]]
    /\ UNCHANGED <<business_data, active_jobs, starts, cancels, exports,
                   create_resp>>

\* finally: if job_id in self.active_jobs
_execute_job_finally(t) ==
    /\ execs[t].pc = "finally"
    /\ execs' = [execs EXCEPT ![t].pc =
          IF execs[t].job_id \in DOMAIN active_jobs THEN "del" ELSE "done"]
    /\ UNCHANGED <<jobs, business_data, active_jobs, starts, cancels, exports,
                   create_resp>>

\* a thread that ends and leaves its handle in the registry
_execute_job_del_keep(t) ==
    /\ execs[t].pc = "del"
    /\ execs' = [execs EXCEPT ![t].pc = "done"]
    /\ UNCHANGED <<jobs, business_data, active_jobs, starts, cancels, exports,
                   create_resp>>

\* del self.active_jobs[job_id]; a KeyError ends the thread
_execute_job_del(t) ==
    /\ execs[t].pc = "del"
    /\ active_jobs' = IF execs[t].job_id \in DOMAIN active_jobs
                      THEN DictDel(active_jobs, execs[t].job_id)
                      ELSE active_jobs
    /\ execs' = [execs EXCEPT ![t].pc = "done"]
    /\ UNCHANGED <<jobs, business_data, starts, cancels, exports, create_resp>>

Next ==
    \/ \E data \in CreateRequests : create_job(data)
          /\ UNCHANGED <<processor, call>>
    \/ \E s \in StartReqs, j \in 1..MaxJobs : start_job_route(s, j)
          /\ UNCHANGED <<processor, call>>
    \/ \E s \in StartReqs : start_job_check(s)
          /\ UNCHANGED <<processor, call>>
    \/ \E s \in StartReqs : start_job_register(s)
          /\ UNCHANGED <<processor, call>>
    \/ \E k \in CancelReqs, j \in 1..MaxJobs : cancel_job_route(k, j)
          /\ UNCHANGED <<processor, call>>
    \/ \E k \in CancelReqs : cancel_job_commit(k)
          /\ UNCHANGED <<processor, call>>
    \/ \E k \in CancelReqs : cancel_job_check(k)
          /\ UNCHANGED <<processor, call>>
    \/ \E k \in CancelReqs : cancel_job_del(k)
          /\ UNCHANGED <<processor, call>>
    \/ \E t \in StartReqs : _execute_job_start(t)
          /\ UNCHANGED <<processor, call>>
    \/ \E t \in StartReqs : _execute_job_scraped(t)
          /\ UNCHANGED <<processor, call>>
    \/ \E t \in StartReqs : _execute_job_store(t)
          /\ UNCHANGED <<processor, call>>
    \/ \E t \in StartReqs : _execute_job_export(t)
          /\ UNCHANGED <<processor, call>>
    \/ \E t \in StartReqs : _execute_job_complete(t)
          /\ UNCHANGED <<processor, call>>
    \/ \E t \in StartReqs : _execute_job_except(t)
          /\ UNCHANGED <<processor, call>>
    \/ \E t \in StartReqs : _execute_job_finally(t)
          /\ UNCHANGED <<processor, call>>
    \/ \E t \in StartReqs : _execute_job_del(t)
          /\ UNCHANGED <<processor, call>>

Spec == Init /\ [][Next]_vars

(***************************************************************************)
(* GET /jobs/<id>/reports/<report_type>: reads the state, changes nothing. *)
(***************************************************************************)
ReportTypes == {"excel", "csv", "json", "pdf"}

\* the report files of a job are on disk once the exporter has written them
ReportFileExists(job_id) ==
    \E n \in 1..Len(exports) : exports[n].job_id = job_id

\* the answer of the route in the current state
download_report(job_id, report_type) ==
    IF ~JobExists(job_id) THEN "not_found"
    ELSE IF jobs[job_id].status # COMPLETED THEN "not_completed"
    ELSE IF report_type \notin {"excel", "csv", "json"} THEN "invalid_type"
    ELSE IF ~jobs[job_id].reports \/ ~ReportFileExists(job_id)
    THEN "file_not_found"
    ELSE "payload"

(***************************************************************************)
(* Scheduling: a started thread is left to run to its end and a request    *)
(* the server has accepted is handled to its answer, every call they make  *)
(* returning or raising.  Nothing obliges a client to send a request.      *)
(***************************************************************************)
\* the next statement of thread t
ThreadStep(t) ==
    /\ \/ _execute_job_start(t)
       \/ _execute_job_scraped(t)
       \/ _execute_job_store(t)
       \/ _execute_job_export(t)
       \/ _execute_job_complete(t)
       \/ _execute_job_except(t)
       \/ _execute_job_finally(t)
       \/ _execute_job_del(t)
    /\ UNCHANGED <<processor, call>>

\* the next statement of a start or cancel request that is being handled
StartStep(s) ==
    /\ start_job_check(s) \/ start_job_register(s)
    /\ UNCHANGED <<processor, call>>

CancelStep(k) ==
    /\ cancel_job_commit(k) \/ cancel_job_check(k) \/ cancel_job_del(k)
    /\ UNCHANGED <<processor, call>>

FairSpec ==
    /\ Spec
    /\ \A t \in StartReqs : WF_vars(ThreadStep(t))
    /\ \A s \in StartReqs : WF_vars(StartStep(s))
    /\ \A k \in CancelReqs : WF_vars(CancelStep(k))

(***************************************************************************)
(* HVACDataProcessor on its own: load_businesses, clean_and_validate_data, *)
(* filter_by_criteria, over batches of raw records.                        *)
(***************************************************************************)
NameValues == { <<>>, <<"Z","e","d">> }
PhoneValues == { <<>>, <<"2","0","8","5","5","5","0","1","0","1">> }
AddressValues == { <<>>, <<"1"," ","E","l","m">> }
WebsiteValues == { <<>>, <<"N","/","A">>, <<"z",".","i","o">> }
RatingValues == { NaN, <<0>>, <<47>> }
ReviewValues == { NaN, <<0>>, <<3>>, <<25>>, <<0 - 1>> }
OwnerValues == { <<>>, <<"A","l"," ","F","o","x">> }
ContactValues == { <<>>, <<"x">> }

\* one BusinessInfo for every combination of the field values above
FieldRecords ==
    [name : NameValues, address : AddressValues, phone : PhoneValues,
     website : WebsiteValues, star_rating : RatingValues,
     review_count : ReviewValues, owner_name : OwnerValues,
     additional_contact : ContactValues, location : {LocationNames[1]}]

\* batches of up to MaxRecords of the records of RawRecords
Batches ==
    UNION {[1..n -> {Business([key |-> k, location |-> LocationNames[1]]) :
                        k \in DOMAIN RawRecords}] : n \in 0..MaxRecords}

BusinessLists == Batches \cup {<<b>> : b \in FieldRecords}

MaxReviewsValues == {0, DefaultMaxReviews}
MinQualityValues == {DefaultMinQuality, 55}

\* processor = HVACDataProcessor(); processor.load_businesses(businesses)
load_businesses(businesses) ==
    [NoProcessor EXCEPT !.pc = "loaded", !.businesses = businesses]

InitProcessor ==
    /\ jobs = <<>>
    /\ business_data = <<>>
    /\ active_jobs = <<>>
    /\ starts = [s \in StartReqs |-> IdleRequest]
    /\ cancels = [k \in CancelReqs |-> IdleRequest]
    /\ execs = [s \in StartReqs |-> NoThread]
    /\ exports = <<>>
    /\ create_resp = 0
    /\ \E businesses \in BusinessLists : processor = load_businesses(businesses)
    /\ call = NoCall

\* the frame after the column-wise cleaning, and after drop_duplicates and
\* the name filter
Normalized(businesses) == [i \in 1..Len(businesses) |-> CleanRow(businesses[i])]

\* processor.clean_and_validate_data().  When every row of a non-empty
\* frame is dropped, df.apply(..., axis=1) hands back an empty DataFrame and
\* its assignment to one column raises ValueError or not with the pandas at
\* hand.
CleanAndValidate ==
    /\ processor.pc = "loaded"
    /\ LET normalized == Normalized(processor.businesses)
           survivors == dedupe(normalized)
       IN  \E raises \in BOOLEAN :
             /\ raises => processor.businesses # <<>> /\ survivors = <<>>
             /\ processor' =
                   [processor EXCEPT
                      !.normalized = normalized,
                      !.deduped = survivors,
                      !.processed_data =
                          IF raises THEN None
                          ELSE clean_and_validate_data(processor.businesses),
                      !.pc = IF raises THEN "raised" ELSE "cleaned"]
    /\ UNCHANGED <<jobs, business_data, active_jobs, starts, cancels, execs,
                   exports, create_resp, call>>

\* processor.filter_by_criteria(max_reviews, min_quality_score)
FilterByCriteria(max_reviews, min_quality_score) ==
    /\ processor.pc = "cleaned"
    /\ processor' =
          IF processor.processed_data.is_none
          THEN [processor EXCEPT !.pc = "raised"]
          ELSE [processor EXCEPT
                  !.max_reviews = max_reviews,
                  !.min_quality_score = min_quality_score,
                  !.filtered = filter_by_criteria(processor.processed_data,
                                                  max_reviews, min_quality_score),
                  !.pc = "filtered"]
    /\ UNCHANGED <<jobs, business_data, active_jobs, starts, cancels, execs,
                   exports, create_resp, call>>

NextProcessor ==
    \/ CleanAndValidate
    \/ \E max_reviews \in MaxReviewsValues, min_quality_score \in MinQualityValues :
          FilterByCriteria(max_reviews, min_quality_score)

SpecProcessor == InitProcessor /\ [][NextProcessor]_vars

(***************************************************************************)
(* The field cleaners of HVACDataProcessor on their own: each is called on *)
(* a raw value and then once more on its own result.                       *)
(***************************************************************************)
\* strings of up to MaxDigits digits that begin with 1 or with 2
DigitStrings ==
    {<<>>} \cup
    {<<f>> \o [i \in 1..n |-> DigitChars[((i * 3) % 10) + 1]] :
        f \in {"1", "2"}, n \in 0..(MaxDigits - 1)}

\* s with sep between every two of its characters
RECURSIVE Interleave(_, _)
Interleave(s, sep) ==
    IF Len(s) <= 1 THEN s
    ELSE <<s[1]>> \o sep \o Interleave(Tail(s), sep)

PhoneInputs ==
    {prefix \o Interleave(d, sep) :
        d \in DigitStrings,
        sep \in {<<>>, <<"-">>, <<".", " ">>},
        prefix \in {<<>>, <<"+">>, <<" ", "(">>}}

\* the words of words with one space between them
RECURSIVE Join(_)
Join(words) ==
    IF words = <<>> THEN <<>>
    ELSE IF Len(words) = 1 THEN words[1]
    ELSE words[1] \o <<" ">> \o Join(Tail(words))

OwnerTokens ==
    { <<"M","r">>, <<"D","r",".">>, <<"A","l">>, <<"a","l">>, <<"(","x",")">> }

OwnerInputs ==
    {Join(w) : w \in UNION {[1..n -> OwnerTokens] : n \in 0..MaxTokens}}
        \cup OwnerSentinels
        \cup {<<" ">> \o o \o <<" ">> : o \in OwnerSentinels}
        \cup {RawRecords[k].owner_name : k \in DOMAIN RawRecords}
        \cup { <<"A","l"," "," ","F","o","x">> }

AddressChars == {"a", ",", " "}

AddressInputs ==
    UNION {[1..n -> AddressChars] : n \in 0..MaxChars}
        \cup AddressSentinels
        \cup {<<" ">> \o a : a \in AddressSentinels}
        \cup {RawRecords[k].address : k \in DOMAIN RawRecords}
        \cup { <<"N","o","t"," "," ","f","o","u","n","d">> }

NameInputs ==
    {RawRecords[k].name : k \in DOMAIN RawRecords}
        \cup { <<>>, <<"\"","Z","e","d","\"">>,
               <<"G","o","o","g","l","e"," ","m","a","p","s"," ","x">>,
               <<"A","c","e"," ","I","n","c",".",".">>,
               <<"A","c","e"," ","c","o","r","p","."," ">>,
               <<"A","c","e"," ","I","n","c","."," ","L","L","C",".">>,
               <<"Z","i","n","c">>, <<"l","l","c">> }

\* the columns cleaned with pd.to_numeric are named by the column
CallInputs ==
    [method : {"_validate_phone_number"}, arg : PhoneInputs]
        \cup [method : {"_clean_owner_name"}, arg : OwnerInputs]
        \cup [method : {"_clean_address"}, arg : AddressInputs]
        \cup [method : {"_clean_business_name"}, arg : NameInputs]
        \cup [method : {"review_count"}, arg : ReviewValues]
        \cup [method : {"star_rating"}, arg : RatingValues]

\* what clean_and_validate_data does to one value of a column
Clean(method, arg) ==
    CASE method = "_validate_phone_number" -> _validate_phone_number(arg)
      [] method = "_clean_owner_name" -> _clean_owner_name(arg)
      [] method = "_clean_address" -> _clean_address(arg)
      [] method = "_clean_business_name" -> _clean_business_name(arg)
      [] method \in {"review_count", "star_rating"} -> ToNumeric(arg)

\* a cleaned value as the value of a raw record
AsRaw(method, value) ==
    IF method \in {"review_count", "star_rating"} THEN <<value>> ELSE value

InitNormalizer ==
    /\ jobs = <<>>
    /\ business_data = <<>>
    /\ active_jobs = <<>>
    /\ starts = [s \in StartReqs |-> IdleRequest]
    /\ cancels = [k \in CancelReqs |-> IdleRequest]
    /\ execs = [s \in StartReqs |-> NoThread]
    /\ exports = <<>>
    /\ create_resp = 0
    /\ processor = NoProcessor
    /\ \E c \in CallInputs :
          call = [NoCall EXCEPT !.pc = "raw", !.method = c.method, !.arg = c.arg]

\* the cleaner is applied to the raw value
FirstCall ==
    /\ call.pc = "raw"
    /\ call' = [call EXCEPT !.result = Clean(call.method, call.arg),
                            !.pc = "once"]
    /\ UNCHANGED <<jobs, business_data, active_jobs, starts, cancels, execs,
                   exports, create_resp, processor>>

\* the cleaner is applied to its own result
SecondCall ==
    /\ call.pc = "once"
    /\ call' = [call EXCEPT
                  !.again = Clean(call.method, AsRaw(call.method, call.result)),
                  !.pc = "twice"]
    /\ UNCHANGED <<jobs, business_data, active_jobs, starts, cancels, execs,
                   exports, create_resp, processor>>

NextNormalizer ==
    \/ FirstCall
    \/ SecondCall

SpecNormalizer == InitNormalizer /\ [][NextNormalizer]_vars

(***************************************************************************)
(* Properties.                                                             *)
(***************************************************************************)
Terminal == {COMPLETED, FAILED, CANCELLED}

JobIds == DOMAIN jobs

\* a cancel request for job_id has passed its status check
CancelAccepted(job_id) ==
    \E k \in CancelReqs :
        /\ cancels[k].job_id = job_id
        /\ \/ cancels[k].pc \in {"commit", "check", "del"}
           \/ cancels[k].outcome \in {"success", "internal_error"}

\* a cancel request for job_id has committed CANCELLED
CancelCommitted(job_id) ==
    \E k \in CancelReqs :
        /\ cancels[k].job_id = job_id
        /\ \/ cancels[k].pc \in {"check", "del"}
           \/ cancels[k].outcome \in {"success", "internal_error"}

\* thread t exists and has not ended
Executing(t) == execs[t].pc \notin {"none", "done"}

RowsOf(job_id) == SelectSeq(business_data, LAMBDA r : r.job_id = job_id)
ExportsOf(job_id) == SelectSeq(exports, LAMBDA e : e.job_id = job_id)

\* C1: terminal states are absorbing: once a job's persisted status is
\* Completed, Failed or Cancelled, no step of any operation changes it.
C1_TerminalAbsorbing ==
    [][\A j \in JobIds :
          jobs[j].status \in Terminal => jobs'[j].status = jobs[j].status]_vars

\* C2: at most one execution per job: of the start calls on one job id at
\* most one succeeds, so no second execution of the job is ever started.
C2_SingleExecution ==
    \A j \in JobIds :
        Cardinality({s \in StartReqs :
                        starts[s].job_id = j /\ starts[s].outcome = "success"}) <= 1

\* C3: whenever an execution writes status Running, the persisted status
\* immediately before the write is Pending.
C3_RunningOnlyFromPending ==
    [][\A t \in StartReqs :
          (execs[t].pc = "start" /\ execs'[t].pc \in {"scraping", "store"})
              => jobs[execs[t].job_id].status = PENDING]_vars

\* C4: in every state after start has returned success, the job's persisted
\* status is not Pending and started_at is set.
C4_StartedMeansRunning ==
    \A s \in StartReqs :
        starts[s].outcome = "success"
            => /\ jobs[starts[s].job_id].status # PENDING
               /\ jobs[starts[s].job_id].started_at

\* C5: a start that finds the persisted status not Pending is rejected with
\* InvalidState, a start that finds an ExecutionHandle for the job is
\* rejected with AlreadyRunning, and a rejected start changes neither the
\* jobs, nor the records, nor the handle registry, and starts no execution.
C5_StartRejections ==
    [][\A s \in StartReqs :
          LET j == starts'[s].job_id
          IN  /\ (/\ starts[s].pc = "idle" /\ starts'[s].pc # "idle"
                  /\ JobExists(j) /\ jobs[j].status # PENDING)
                     => starts'[s].outcome = "invalid_state"
              /\ (/\ starts[s].pc = "check" /\ starts'[s].pc # "check"
                  /\ j \in DOMAIN active_jobs)
                     => starts'[s].outcome = "already_running"
              /\ (/\ starts[s].pc # "done"
                  /\ starts'[s].outcome \in {"invalid_state", "already_running"})
                     => UNCHANGED <<jobs, business_data, active_jobs, execs,
                                    exports>>]_vars

\* C5 witness: one start was rejected with AlreadyRunning while the handle
\* registered by the accepted start is in place.
C5_Witness ==
    \E s, r \in StartReqs :
        /\ starts[s].outcome = "already_running"
        /\ starts[r].outcome = "success"
        /\ starts[s].job_id = starts[r].job_id
        /\ starts[s].job_id \in DOMAIN active_jobs

\* C6: cancel is accepted exactly when the status it reads is Pending or
\* Running; an accepted cancel commits status Cancelled with completed_at
\* set and answers with no ExecutionHandle left for the job; on a terminal
\* status it answers invalid-state and changes neither jobs nor registry.
C6_CancelContract ==
    [][\A k \in CancelReqs :
          LET j == cancels'[k].job_id
          IN  /\ (cancels[k].pc = "idle" /\ cancels'[k].pc # "idle" /\ JobExists(j))
                     => /\ (cancels'[k].pc = "commit")
                              <=> (jobs[j].status \in {PENDING, RUNNING})
                        /\ jobs[j].status \in Terminal
                              => /\ cancels'[k].outcome = "invalid_state"
                                 /\ UNCHANGED <<jobs, business_data, active_jobs,
                                                execs, exports>>
              /\ (cancels[k].pc = "commit" /\ cancels'[k].pc # "commit")
                     => /\ jobs'[j].status = CANCELLED
                        /\ jobs'[j].completed_at
              /\ (cancels[k].pc \in {"check", "del"} /\ cancels'[k].pc = "done")
                     => j \notin DOMAIN active_jobs']_vars

\* C6 witness: a cancel was accepted while the job's execution was scraping;
\* the job is Cancelled with completed_at set and its handle is gone.
C6_Witness ==
    \E k \in CancelReqs, t \in StartReqs :
        /\ cancels[k].outcome = "success"
        /\ execs[t].job_id = cancels[k].job_id
        /\ execs[t].pc = "scraping"
        /\ jobs[cancels[k].job_id].status = CANCELLED
        /\ jobs[cancels[k].job_id].completed_at
        /\ cancels[k].job_id \notin DOMAIN active_jobs

\* C7: once a cancel of its job has been accepted, an execution performs no
\* further effect beyond finishing the Extractor call in flight: it enters
\* no further scrape_location call, persists no records, invokes no
\* exporter and writes no counts or report references to the job.
C7_NoEffectAfterCancel ==
    [][\A t \in StartReqs :
          (Executing(t) /\ CancelCommitted(execs[t].job_id) /\ execs'[t] # execs[t])
              => /\ ~(execs'[t].pc = "scraping" /\ execs'[t].loc # execs[t].loc)
                 /\ business_data' = business_data
                 /\ exports' = exports
                 /\ jobs'[execs[t].job_id].total_businesses_found
                        = jobs[execs[t].job_id].total_businesses_found
                 /\ jobs'[execs[t].job_id].businesses_meeting_criteria
                        = jobs[execs[t].job_id].businesses_meeting_criteria
                 /\ jobs'[execs[t].job_id].reports
                        = jobs[execs[t].job_id].reports]_vars

Undisturbed(t) ==
    /\ execs[t].raised \notin {"store error", "extractor error", "exporter error",
                               HandlerError}
    /\ \A k \in CancelReqs : cancels[k].pc = "idle"
    /\ \A u \in StartReqs \ {t} : execs[u].pc = "none"

\* C9: a job with one location whose Extractor returns zero records ends
\* Completed with total_found = 0 and total_matching = 0, the exporter
\* having been invoked with an empty record set.
C9_EmptyRunCompletes ==
    \A t \in StartReqs :
        (/\ execs[t].pc = "done"
         /\ Undisturbed(t)
         /\ Len(jobs[execs[t].job_id].locations) = 1
         /\ execs[t].loc = 2
         /\ execs[t].all_businesses = <<>>)
            => /\ jobs[execs[t].job_id].status = COMPLETED
               /\ jobs[execs[t].job_id].total_businesses_found = 0
               /\ jobs[execs[t].job_id].businesses_meeting_criteria = 0
               /\ \E i \in DOMAIN exports :
                     exports[i].job_id = execs[t].job_id /\ exports[i].rows = <<>>

\* C10: a failed run persists no records: when the only execution of a job
\* has failed, the Store holds no records for that job.
C10_FailedRunPersistsNothing ==
    \A t \in StartReqs :
        (/\ execs[t].pc \in {"finally", "del", "done"}
         /\ execs[t].raised # ""
         /\ jobs[execs[t].job_id].status = FAILED
         /\ \A u \in StartReqs \ {t} : execs[u].pc = "none")
            => RowsOf(execs[t].job_id) = <<>>

\* C11: when an execution ends, by whatever path, the registry holds no
\* handle for its job id: the step that ends thread t leaves active_jobs
\* without an entry for t's job.
C11_HandleRemovedAtEnd ==
    [][\A t \in StartReqs :
          (execs[t].pc # "done" /\ execs'[t].pc = "done")
              => execs[t].job_id \notin DOMAIN active_jobs']_vars

\* an execution that failed has ended, after cleanup and the handler, and the
\* registry is empty of its job
C11_Witness ==
    \E t \in StartReqs :
        /\ execs[t].pc = "done"
        /\ execs[t].raised # ""
        /\ execs[t].job_id \notin DOMAIN active_jobs

\* C12: the registry is the single source of truth for running executions:
\* active_jobs has an entry for job j exactly when a thread of j has been
\* started and has not ended.
C12_RegistryIffExecuting ==
    \A j \in 1..MaxJobs :
        j \in DOMAIN active_jobs
            <=> \E t \in StartReqs : Executing(t) /\ execs[t].job_id = j

\* the columns of a BusinessData row that the Normalizer and the Scorer
\* speak about
Persisted(row) ==
    [name |-> Business(row).name, address |-> Business(row).address,
     phone |-> Business(row).phone, owner_name |-> Business(row).owner_name,
     priority_score |-> row.priority_score,
     data_quality_score |-> row.data_quality_score]

Scored(row) ==
    [name |-> row.name, address |-> row.address, phone |-> row.phone,
     owner_name |-> row.owner_name, priority_score |-> row.priority_score,
     data_quality_score |-> row.data_quality_score]

\* thread t commits COMPLETED in this step
Completes(t) ==
    /\ execs[t].pc = "complete"
    /\ execs'[t].pc # "complete"
    /\ jobs[execs[t].job_id].status # COMPLETED
    /\ jobs'[execs[t].job_id].status = COMPLETED

\* C13: when a job becomes Completed, every record the Scorer produced in
\* that run is in the Store against the job, in its normalized form and
\* with its two scores.
C13_AllScoredPersisted ==
    [][\A t \in StartReqs :
          Completes(t) =>
              \A i \in 1..Len(ProcessedOf(execs[t]).rows) :
                  \E n \in 1..Len(business_data') :
                      /\ business_data'[n].job_id = execs[t].job_id
                      /\ Persisted(business_data'[n])
                            = Scored(ProcessedOf(execs[t]).rows[i])]_vars

\* C14: on a job that becomes Completed, total_found is the number of
\* scored records given to the filter and total_matching the number of
\* records handed to the exporter.
C14_CountsMatchPipeline ==
    [][\A t \in StartReqs :
          Completes(t) =>
              /\ jobs'[execs[t].job_id].total_businesses_found
                    = Len(ProcessedOf(execs[t]).rows)
              /\ jobs'[execs[t].job_id].businesses_meeting_criteria
                    = Len(FilteredOf(execs[t]))]_vars

\* C15: create rejects a request without a name or without a non-empty
\* list of locations and persists nothing for it; an accepted create
\* persists one new Pending job.  Hence every persisted job has a name and
\* at least one location, and the step that adds a job adds one Pending job.
C15_CreateValidation ==
    [][/\ \A j \in DOMAIN jobs' :
             jobs'[j].job_name # <<>> /\ jobs'[j].locations # <<>>
       /\ jobs' # jobs /\ Len(jobs') # Len(jobs) =>
             /\ Len(jobs') = Len(jobs) + 1
             /\ jobs'[Len(jobs')].status = PENDING
             /\ create_resp' = 201
       /\ create_resp' = 400 => jobs' = jobs]_vars

\* the positions of rows that hold the first occurrence of a (name, phone)
\* key with a non-empty name, and the n-th of a set of positions
FirstOccurrences(rows) ==
    {i \in 1..Len(rows) :
        /\ rows[i].name # <<>>
        /\ \A k \in 1..(i - 1) :
              rows[k].name # rows[i].name \/ rows[k].phone # rows[i].phone}

Nth(positions, n) ==
    CHOOSE i \in positions : Cardinality({k \in positions : k <= i}) = n

\* C16: dedupe returns exactly the subsequence of its input made of the
\* first occurrence of each (name, phone) key among the records with a
\* non-empty name, in input order; no two survivors share (name, phone) and
\* no survivor has an empty name.
C16_DedupeFirstOccurrences ==
    processor.pc \in {"cleaned", "filtered", "raised"} =>
        LET rows == processor.normalized
            out == processor.deduped
            first == FirstOccurrences(rows)
        IN  /\ Len(out) = Cardinality(first)
            /\ \A n \in 1..Len(out) : out[n] = rows[Nth(first, n)]
            /\ \A n \in 1..Len(out) : out[n].name # <<>>
            /\ \A m, n \in 1..Len(out) :
                  m # n => out[m].name # out[n].name \/ out[m].phone # out[n].phone

\* a batch of which a duplicate and a record without a name were dropped
C16_Witness ==
    /\ processor.pc = "cleaned"
    /\ \E i, k \in 1..Len(processor.normalized) :
          /\ k < i
          /\ processor.normalized[i].name # <<>>
          /\ processor.normalized[i].name = processor.normalized[k].name
          /\ processor.normalized[i].phone = processor.normalized[k].phone
    /\ \E i \in 1..Len(processor.normalized) : processor.normalized[i].name = <<>>
    /\ Len(processor.deduped) = 1

\* the criteria of select for a record
Selected(r, maxReviews, minQuality) ==
    /\ r.review_count <= maxReviews
    /\ r.data_quality_score.whole > minQuality
         \/ (r.data_quality_score.whole = minQuality /\ r.data_quality_score.ulps >= 0)
    /\ r.phone # <<>>

\* C17: select keeps a record if and only if review_count <= maxReviews,
\* data_quality_score >= minQuality and the phone is not empty: the output
\* holds every such record of the input once and nothing else.
C17_SelectCriteria ==
    processor.pc = "filtered" =>
        LET rows == processor.processed_data.rows
            out == processor.filtered
        IN  /\ \A i \in 1..Len(rows) :
                  (\E n \in 1..Len(out) : out[n] = rows[i])
                      <=> Selected(rows[i], processor.max_reviews,
                                   processor.min_quality_score)
            /\ \A n \in 1..Len(out) : \E i \in 1..Len(rows) : out[n] = rows[i]
            /\ \A m, n \in 1..Len(out) : m # n => out[m] # out[n]

\* a batch of which select kept a record, rejected one for its reviews and
\* rejected one without a phone
C17_Witness ==
    /\ processor.pc = "filtered"
    /\ Len(processor.filtered) > 0
    /\ \E i, k \in 1..Len(processor.processed_data.rows) :
          /\ processor.processed_data.rows[i].review_count > processor.max_reviews
          /\ processor.processed_data.rows[i].phone # <<>>
          /\ processor.processed_data.rows[k].review_count <= processor.max_reviews
          /\ processor.processed_data.rows[k].phone = <<>>

\* (priority_score, review_count, name) of a is at most that of b
TupleLE(a, b) ==
    \/ a.priority_score < b.priority_score
    \/ /\ a.priority_score = b.priority_score
       /\ a.review_count < b.review_count
    \/ /\ a.priority_score = b.priority_score
       /\ a.review_count = b.review_count
       /\ (a.name = b.name \/ StrLess(a.name, b.name))

\* C18: the output of select is sorted non-decreasing by the tuple
\* (priority_score, review_count, name), compared lexicographically.
C18_SelectSorted ==
    processor.pc = "filtered" =>
        \A m, n \in 1..Len(processor.filtered) :
            m < n => TupleLE(processor.filtered[m], processor.filtered[n])

\* an output of three records that came in another order: one pair is told
\* apart by the priority score, one by the name alone
C18_Witness ==
    /\ processor.pc = "filtered"
    /\ Len(processor.filtered) = 3
    /\ processor.filtered[1].name # processor.processed_data.rows[1].name
    /\ processor.filtered[2].priority_score < processor.filtered[3].priority_score
    /\ processor.filtered[1].priority_score = processor.filtered[2].priority_score
    /\ processor.filtered[1].review_count = processor.filtered[2].review_count

\* the priority score the Scorer is to give a normalized record
PriorityScore(r) ==
    LET raw == r.review_count * 10
               - (IF r.phone # <<>> THEN 50 ELSE 0)
               - (IF r.owner_name # <<>> THEN 30 ELSE 0)
               - (IF r.website # <<>> /\ r.website \notin WebsitePlaceholders
                  THEN 10 ELSE 0)
               - (IF r.star_rating > 0 THEN (r.star_rating * 2) \div 10 ELSE 0)
    IN  IF raw < 0 THEN 0 ELSE raw

\* C19: for every normalized record, priority_score = max(0,
\* review_count*10 - 50 if phone - 30 if owner_name - 10 if website is given
\* and no placeholder - floor(rating*2) if rating > 0): it is never
\* negative, and a record with no reviews, phone and owner, no website and
\* rating 0 scores 0.
C19_PriorityScore ==
    processor.pc \in {"cleaned", "filtered"} =>
        \A i \in 1..Len(processor.processed_data.rows) :
            LET r == processor.processed_data.rows[i]
            IN  /\ r.priority_score = PriorityScore(r)
                /\ r.priority_score >= 0
                /\ (/\ r.review_count = 0 /\ r.phone # <<>> /\ r.owner_name # <<>>
                     /\ r.website = <<>> /\ r.star_rating = 0)
                        => r.priority_score = 0

\* a scored record on which every term of the sum counts and the result is
\* above 0
C19_Witness ==
    /\ processor.pc = "cleaned"
    /\ \E i \in 1..Len(processor.processed_data.rows) :
          LET r == processor.processed_data.rows[i]
          IN  /\ r.phone # <<>> /\ r.owner_name # <<>> /\ HasWebsite(r)
              /\ r.star_rating > 0
              /\ r.priority_score = r.review_count * 10 - 99

\* the sum of the weights of the fields a record has
WeightSum(r) ==
    (IF r.name # <<>> THEN 20 ELSE 0)
    + (IF r.phone # <<>> THEN 25 ELSE 0)
    + (IF r.address # <<>> THEN 15 ELSE 0)
    + (IF r.owner_name # <<>> THEN 20 ELSE 0)
    + (IF r.website # <<>> /\ r.website \notin WebsitePlaceholders THEN 10 ELSE 0)
    + (IF r.review_count > 0 THEN 5 ELSE 0)
    + (IF r.additional_contact # <<>> THEN 5 ELSE 0)

\* C20: for every normalized record, data_quality_score is exactly
\* 100 * (sum of the weights of its present fields) / 100, which lies in
\* [0, 100]; a record with only name, phone and owner scores 65.
C20_QualityScore ==
    processor.pc \in {"cleaned", "filtered"} =>
        \A i \in 1..Len(processor.processed_data.rows) :
            LET r == processor.processed_data.rows[i]
            IN  /\ r.data_quality_score = Float((100 * WeightSum(r)) \div 100, 0)
                /\ FloatGE(r.data_quality_score, Float(0, 0))
                /\ FloatGE(Float(100, 0), r.data_quality_score)

\* the digits of a string, and the canonical form of ten digits
DigitsOf(s) == SelectSeq(s, LAMBDA c : c \in Range(DigitChars))

CanonicalPhone(d) ==
    <<"(", d[1], d[2], d[3], ")", " ", d[4], d[5], d[6], "-",
      d[7], d[8], d[9], d[10]>>

\* C21: phone normalization: an input with exactly 10 digits, or with 11
\* digits of which the first is 1, gives "(AAA) BBB-CCCC" built from its
\* last 10 digits; every other input gives the empty string; so a
\* normalized phone is empty or in the canonical format.
C21_PhoneNormalization ==
    (call.method = "_validate_phone_number" /\ call.pc \in {"once", "twice"}) =>
        LET digits == DigitsOf(call.arg)
            n == Len(digits)
        IN  /\ (n = 10 \/ (n = 11 /\ digits[1] = "1"))
                  => call.result = CanonicalPhone(SubSeq(digits, n - 9, n))
            /\ ~(n = 10 \/ (n = 11 /\ digits[1] = "1")) => call.result = <<>>
            /\ call.result = <<>>
                  \/ (Len(DigitsOf(call.result)) = 10
                      /\ call.result = CanonicalPhone(DigitsOf(call.result)))

\* eleven digits that begin with 1, written with other characters between
\* them, were normalized
C21_Witness ==
    /\ call.method = "_validate_phone_number"
    /\ call.pc = "once"
    /\ Len(DigitsOf(call.arg)) = 11
    /\ Len(call.arg) > 11
    /\ call.result # <<>>

\* Mr, Mrs, Ms or Dr, in any case, with or without a full stop
IsHonorific(w) ==
    \E i \in 1..Len(Titles) :
        LET t == Titles[i]
        IN  /\ Len(w) \in {Len(t), Len(t) + 1}
            /\ \A k \in 1..Len(t) : ToLower(w[k]) = ToLower(t[k])
            /\ Len(w) = Len(t) + 1 => w[Len(w)] = "."

\* the tokens of the normalized owner name: none for a sentinel; otherwise
\* the tokens left when the parenthetical asides and one leading honorific
\* are removed, if they are 2 to 4 capitalized words, and none if not
OwnerNameTokens(owner) ==
    IF owner = <<>> \/ strip(owner) \in OwnerSentinels THEN <<>>
    ELSE LET words == split(RemoveParens(strip(owner)))
             rest == IF Len(words) > 1 /\ IsHonorific(words[1])
                     THEN Tail(words) ELSE words
         IN  IF /\ Len(rest) >= 2
                /\ Len(rest) <= 4
                /\ \A i \in 1..Len(rest) : IsNameWord(rest[i])
             THEN rest ELSE <<>>

\* C22: owner-name normalization: a sentinel gives the empty string;
\* otherwise the parenthetical asides and one leading honorific are removed
\* and what is left is kept only if it is 2 to 4 tokens that each have the
\* shape of a capitalized word; so a normalized owner_name is empty or 2 to
\* 4 capitalized tokens.
C22_OwnerNormalization ==
    (call.method = "_clean_owner_name" /\ call.pc \in {"once", "twice"}) =>
        /\ split(call.result) = OwnerNameTokens(call.arg)
        /\ call.result = <<>>
              \/ (/\ Len(split(call.result)) >= 2
                  /\ Len(split(call.result)) <= 4
                  /\ \A i \in 1..Len(split(call.result)) :
                        IsNameWord(split(call.result)[i]))

\* the invariant alone: a normalized owner_name is empty or 2 to 4
\* capitalized tokens
OwnerNameShape ==
    (call.method = "_clean_owner_name" /\ call.pc \in {"once", "twice"}) =>
        call.result = <<>>
          \/ (/\ Len(split(call.result)) >= 2
              /\ Len(split(call.result)) <= 4
              /\ \A i \in 1..Len(split(call.result)) :
                    IsNameWord(split(call.result)[i]))

\* C23: normalization is idempotent field by field: cleaning an already
\* cleaned name, phone, address, owner name, review count or star rating
\* gives the same value again.
C23_Idempotent ==
    call.pc = "twice" => call.again = call.result

\* the fields other than owner name and address are cleaned idempotently
IdempotentElsewhere ==
    (call.pc = "twice" /\ call.method \notin {"_clean_owner_name", "_clean_address"})
        => call.again = call.result

\* C24: a normalized review_count is never negative.
C24_ReviewCountNonNegative ==
    (call.method = "review_count" /\ call.pc \in {"once", "twice"}) =>
        call.result >= 0

\* rows is the output of RankFilter for job on the frame of scored records:
\* the records that meet the job's criteria, each once, sorted
RankFilterOutput(rows, frame, job) ==
    /\ \A i \in 1..Len(frame) :
          (\E n \in 1..Len(rows) : rows[n] = frame[i])
              <=> Selected(frame[i], job.max_reviews, job.min_quality_score)
    /\ \A n \in 1..Len(rows) : \E i \in 1..Len(frame) : rows[n] = frame[i]
    /\ \A m, n \in 1..Len(rows) : m # n => rows[m] # rows[n]
    /\ \A m, n \in 1..Len(rows) : m < n => TupleLE(rows[m], rows[n])

\* the stages of the execution of thread t, in one step of it
StageOrder(t) ==
    LET job_id == execs[t].job_id
        job == jobs[job_id]
        all == execs[t].all_businesses
    IN  /\ (/\ execs[t].pc = "scraping"
             /\ execs'[t] # execs[t]
             /\ execs'[t].pc \in {"scraping", "store"}) =>
              /\ execs'[t].loc = execs[t].loc + 1
              /\ all = Accumulated(SubSeq(job.locations, 1, execs[t].loc - 1))
              /\ execs'[t].all_businesses
                    = Accumulated(SubSeq(job.locations, 1, execs[t].loc))
              /\ (execs'[t].pc = "store") <=> (execs[t].loc = Len(job.locations))
              /\ business_data' = business_data
        /\ (execs[t].pc = "store" /\ execs'[t].pc = "export") =>
              /\ all = Accumulated(job.locations)
              /\ business_data' = business_data \o
                    [i \in 1..Len(all) |-> BusinessData(job_id, all[i])]
              /\ exports' = exports
        /\ (execs[t].pc = "export" /\ execs'[t].pc = "complete") =>
              /\ Len(RowsOf(job_id)) >= Len(all)
              /\ Len(exports') = Len(exports) + 1
              /\ exports'[Len(exports')].job_id = job_id
              /\ RankFilterOutput(exports'[Len(exports')].rows,
                                  ProcessedOf(execs[t]).rows,
                                  job)
              /\ jobs' = jobs
        /\ Completes(t) =>
              \E n \in 1..Len(exports) :
                  /\ exports[n].job_id = job_id
                  /\ exports[n].rows = FilteredOf(execs[t])

\* C25: stage ordering within one execution: the Extractor is called once
\* per configured location, in list order, and all calls have returned
\* before any record is persisted; all records are persisted before
\* RankFilter runs and the exporter is invoked, with exactly the filtered,
\* sorted output of RankFilter for the job's max_reviews and
\* min_quality_score; the job is written Completed only after the exporter
\* has returned.
C25_StageOrder ==
    [][/\ \A t \in StartReqs : StageOrder(t)
       /\ Len(business_data') # Len(business_data) =>
             \E t \in StartReqs : execs[t].pc = "store" /\ execs'[t].pc = "export"
       /\ exports' # exports =>
             \E t \in StartReqs : execs[t].pc = "export" /\ execs'[t].pc = "complete"
       /\ \A j \in JobIds :
             (jobs[j].status # COMPLETED /\ jobs'[j].status = COMPLETED) =>
                 \E t \in StartReqs : execs[t].job_id = j /\ Completes(t)]_vars

\* an execution over two locations has written Completed: its records are
\* in the Store and the exporter has been given a non-empty filtered set
C25_Witness ==
    \E t \in StartReqs :
        /\ execs[t].pc \in {"except", "finally"}
        /\ jobs[execs[t].job_id].status = COMPLETED
        /\ Len(jobs[execs[t].job_id].locations) = 2
        /\ execs[t].all_businesses # <<>>
        /\ Len(RowsOf(execs[t].job_id)) >= Len(execs[t].all_businesses)
        /\ \E n \in 1..Len(exports) :
              /\ exports[n].rows = FilteredOf(execs[t])
              /\ Len(exports[n].rows) > 0
              /\ Len(exports[n].rows) < Len(ProcessedOf(execs[t]).rows)

\* C26: every started execution ends: every job for which start succeeded
\* eventually has a terminal persisted status (Completed, Failed or
\* Cancelled) and eventually has no handle in the registry; no job stays
\* Pending or Running forever.
C26_Terminates ==
    \A s \in StartReqs :
        /\ (starts[s].outcome = "success")
              ~> (/\ starts[s].outcome = "success"
                  /\ jobs[starts[s].job_id].status \in Terminal)
        /\ (starts[s].outcome = "success")
              ~> (starts[s].job_id \notin DOMAIN active_jobs)

\* the executions end and the handles go, whatever the status
ThreadsEnd ==
    \A s \in StartReqs :
        /\ (starts[s].outcome = "success") ~> (execs[s].pc = "done")
        /\ (starts[s].outcome = "success")
              ~> (starts[s].job_id \notin DOMAIN active_jobs)

\* C27: cancel reports success whenever it has persisted the Cancelled
\* status: a cancel request that has committed Cancelled answers success,
\* however its handle removal interleaves with the execution's own.
C27_CancelReportsSuccess ==
    [][\A k \in CancelReqs :
          (cancels[k].pc \in {"check", "del"} /\ cancels'[k].pc = "done")
              => cancels'[k].outcome = "success"]_vars

\* C28: timestamps agree with status in every reachable state: completed_at
\* is set if and only if the persisted status is Completed, Failed or
\* Cancelled, and a job whose status is Running has started_at set and
\* completed_at unset.
C28_TimestampsAgree ==
    \A j \in JobIds :
        /\ jobs[j].completed_at <=> jobs[j].status \in Terminal
        /\ jobs[j].status = RUNNING
              => jobs[j].started_at /\ ~jobs[j].completed_at

\* the Scorer's result for the record a persisted row was made from
OwnScores(row) == ScoreRow(CleanRow(Business(row)))

\* a persisted row carries the default scores, or the given row's scores
HasDefaultScores(row) ==
    row.priority_score = 0 /\ row.data_quality_score = Float(0, 0)

HasScoresOf(row, scored) ==
    /\ row.priority_score = scored.priority_score
    /\ row.data_quality_score = scored.data_quality_score

\* C29: score write-back hits the right row: when a job is written
\* Completed, the scores stored on each persisted record of the job are the
\* defaults or the Scorer's result for that same record, also when two
\* records share a name and differ in phone, and every record of the
\* filtered set has its scores stored on its own persisted record, also
\* when normalization changed its name.
C29_ScoresOnRightRow ==
    [][\A t \in StartReqs :
          Completes(t) =>
              LET j == execs[t].job_id
                  rows == {n \in 1..Len(business_data') : business_data'[n].job_id = j}
                  filtered == FilteredOf(execs[t])
              IN  /\ \A n \in rows :
                        \/ HasDefaultScores(business_data'[n])
                        \/ HasScoresOf(business_data'[n], OwnScores(business_data'[n]))
                  /\ \A i \in 1..Len(filtered) :
                        \E n \in rows :
                            /\ OwnScores(business_data'[n]) = filtered[i]
                            /\ HasScoresOf(business_data'[n], filtered[i])]_vars

\* C30: report references and result counts exist only on Completed jobs: in
\* every reachable state a job whose status is Pending, Running, Failed or
\* Cancelled has no report references and zero total_found and
\* total_matching, and an artifact fetch returns a payload only for a job
\* whose status is Completed.
C30_ReportsOnlyOnCompleted ==
    \A j \in JobIds :
        /\ jobs[j].status # COMPLETED =>
              /\ ~jobs[j].reports
              /\ jobs[j].total_businesses_found = 0
              /\ jobs[j].businesses_meeting_criteria = 0
        /\ \A report_type \in ReportTypes :
              download_report(j, report_type) = "payload"
                  => jobs[j].status = COMPLETED

\* the fetch alone: a payload is returned only for a Completed job
PayloadOnlyWhenCompleted ==
    \A j \in 1..MaxJobs, report_type \in ReportTypes :
        download_report(j, report_type) = "payload"
            => JobExists(j) /\ jobs[j].status = COMPLETED

====
